---- MODULE Spec2Model ----
(***************************************************************************)
(* A model of anlffr/spectral.py: the multitaper estimators (mtplv, mtspec, *)
(* mtphase, mtcpca, mtcspec, mtcpca_timeDomain, mtppc, mtspecraw, mtpspec,  *)
(* mtcpca_all), the frequency-grid helper _get_freq_vector and the          *)
(* configuration builder generate_parameters/_validate_parameters.          *)
(*                                                                         *)
(* Numbers.  A frequency k*Fs/nfft is kept as its numerator k*Fs over the   *)
(* common denominator nfft.  The passband params['fpass'] is kept in units  *)
(* of half a hertz (the default upper edge Fs/2.0 is then the integer Fs),  *)
(* so "f >= flo" is 2*num >= fpass[1]*nfft.                                 *)
(*                                                                         *)
(* Data.  Array values are not computed; a statistic is the sequence of    *)
(* array operations the code applied to the recording, in the order the    *)
(* code applied them, together with the shape bookkeeping that decides      *)
(* control flow (squeeze, rank, channel and trial counts, sample count).    *)
(***************************************************************************)
EXTENDS Integers, Sequences, FiniteSets, TLC

VARIABLES
    pc,          \* position of the running call
    op,          \* the public operation being called
    x_shape,     \* shape of the recording as passed by the caller
    x_zero,      \* the recording holds one trial that is zero at every sample
    params,      \* the configuration dictionary
    shape,       \* x.shape after x = x.squeeze()
    timedim,     \* local timedim (0-based axis), Unbound when never assigned
    trialdim,    \* local trialdim
    nchans,      \* local nchans
    ntrials,     \* local ntrials
    nfft,        \* transform size returned by _get_freq_vector
    f_full,      \* the full axis f[0:maxIdx] (numerators over nfft)
    fInd,        \* the passband mask over the full axis
    f,           \* the masked axis f[fInd]
    w,           \* number of tapers dpss_windows returned (0 before the fetch)
    pcsel,       \* mtcpca_all's local pc: the eigenvalue indices to select
    ktap,        \* number of completed iterations of the taper loop
    acc,         \* per completed iteration, the per-taper outputs
    drawn,       \* the random draws made so far in the first call of a pair
    rng,         \* state of the process-wide generator np.random: the number
                 \* of draws taken from it since the module was imported
    diag,        \* what was handed to logger.warning / logger.error
    outcome,     \* "none", "returned", or the exception that ended the call
    result,      \* what the call returned
    calls,       \* 1 in the first call, 2 in the repeated call with the other
                 \* bootstrap mode, 3 in the repeated call with the same
                 \* configuration
    prev         \* outcome and result of the first call

vars == <<pc, op, x_shape, x_zero, params, shape, timedim, trialdim, nchans, ntrials,
          nfft, f_full, fInd, f, w, pcsel, ktap, acc, drawn, rng, diag,
          outcome, result, calls, prev>>

----------------------------------------------------------------------------
(* Bounds of the model. *)

\* largest sample count drawn for _get_freq_vector on its own
MaxLen == 6
\* largest sample rate drawn for _get_freq_vector on its own
MaxFs == 3
\* largest transform-size override drawn for _get_freq_vector on its own
MaxNfft == 7
\* largest passband edge (in half hertz) drawn for _get_freq_vector on its own
MaxEdge == 3
\* largest channel or trial count of a recording passed to an estimator
MaxDim == 2
\* most optional keywords passed to generate_parameters before an estimator
\* is called
MaxKw == 2
\* sample count of the recordings passed to the estimators
TimeLen == 4

Unbound == -1

----------------------------------------------------------------------------
(* Small arithmetic helpers. *)

Abs(i) == IF i < 0 THEN -i ELSE i

RECURSIVE Pow2(_)
Pow2(k) == IF k <= 0 THEN 1 ELSE 2 * Pow2(k - 1)

\* ceil(np.log2(n)) for n >= 1: the least k with 2^k >= n
CeilLog2(n) == CHOOSE k \in 0..n : Pow2(k) >= n /\ (k = 0 \/ Pow2(k - 1) < n)

\* the subsequence of s at the positions where mask is TRUE (numpy s[mask])
RECURSIVE Select(_, _)
Select(s, mask) ==
    IF s = <<>> THEN <<>>
    ELSE IF Head(mask) THEN <<Head(s)>> \o Select(Tail(s), Tail(mask))
         ELSE Select(Tail(s), Tail(mask))

----------------------------------------------------------------------------
(* logger.warning / logger.error of anlffr.utils: the diagnostics sink.    *)
(* It records the message and returns; it does not raise.                  *)

logger_report(d, msg) == Append(d, msg)

----------------------------------------------------------------------------
(* _get_freq_vector *)

\* np.fft.fftfreq(n, 1/Fs) as numerators over n:
\* [0, 1, ..., (n-1)//2, -(n//2), ..., -1] * Fs
fftfreq(n, Fs) ==
    [i \in 1..n |->
        IF i - 1 <= (n - 1) \div 2 THEN (i - 1) * Fs
        ELSE (i - 1 - n) * Fs]

\* lines 1227-1230: number of bins np.fft.rfft returns
maxIdx(n) == IF n % 2 = 1 THEN (n + 1) \div 2 ELSE (n \div 2) + 1

\* lines 1212-1215: an override smaller than the sample count is bad
badNfft(L, p) == "nfft" \in p.keys /\ p.nfft < L

\* nfft_of without the fallback for a bad override
nfft_of_keeps_bad_override(L, p) ==
    IF "nfft" \notin p.keys THEN Pow2(CeilLog2(L)) ELSE p.nfft

\* lines 1220-1223: the transform size
nfft_of(L, p) ==
    IF "nfft" \notin p.keys \/ badNfft(L, p)
    THEN Pow2(CeilLog2(L))
    ELSE p.nfft

\* full_axis without np.abs: the Nyquist bin of an even size stays negative
full_axis_without_abs(n, Fs) ==
    LET ff == fftfreq(n, Fs)
        m  == IF maxIdx(n) < n THEN maxIdx(n) ELSE n
    IN [i \in 1..m |-> ff[i]]

\* line 1234: f = np.abs(f[0:maxIdx])
full_axis(n, Fs) ==
    LET ff == fftfreq(n, Fs)
        m  == IF maxIdx(n) < n THEN maxIdx(n) ELSE n
    IN [i \in 1..m |-> Abs(ff[i])]

\* in_passband with the upper edge excluded
in_passband_open_above(num, n, p) ==
    /\ 2 * num >= p.fpass[1] * n
    /\ 2 * num < p.fpass[2] * n

\* line 1236: fInd = (f >= fpass[0]) & (f <= fpass[1])
in_passband(num, n, p) ==
    /\ 2 * num >= p.fpass[1] * n
    /\ 2 * num <= p.fpass[2] * n

passband_mask(full, n, p) ==
    [i \in 1..Len(full) |-> in_passband(full[i], n, p)]

\* the whole function: (nfft, f, fInd), the unmasked axis, the diagnostics
get_freq_vector(L, p, d) ==
    LET n    == nfft_of(L, p)
        full == full_axis(n, p.Fs)
        mask == passband_mask(full, n, p)
    IN [nfft |-> n,
        full |-> full,
        fInd |-> mask,
        f    |-> Select(full, mask),
        diag |-> IF badNfft(L, p)
                 THEN logger_report(d, "nfft should be >= number of time points")
                 ELSE d]

----------------------------------------------------------------------------
(* generate_parameters and _validate_parameters *)

\* lines 1274-1284: the defaults (threads, nDraws, indivDraw and debugMode are
\* read by no estimator and are left out).  Fs, nfft and fpass are absent.
default_params ==
    [keys |-> {"tapers", "Npairs", "itc", "bootstrapMode",
               "returnEigenvectors", "pcaComponentNumber"},
     Fs |-> 0, nfft |-> 0, fpass |-> <<>>,
     tapers |-> <<2, 3>>,
     Npairs |-> 0,
     itc |-> FALSE,
     bootstrapMode |-> FALSE,
     returnEigenvectors |-> FALSE,
     pcaComponentNumber |-> <<1>>,
     pcaIsArray |-> FALSE]

\* str.lower() on the spellings under which a sample rate is passed
lower(name) ==
    CASE name \in {"Fs", "fs", "FS"} -> "fs"
      [] name \in {"samplerate", "SampleRate"} -> "samplerate"
      [] name \in {"sfreq", "SFreq"} -> "sfreq"
      [] name \in {"srate", "SRATE"} -> "srate"
      [] OTHER -> name

\* kw.lower == 'sfreq' (lines 1291-1292, no call parentheses): a bound method
\* compared with a string, which is never equal
method_equals(name, str) == FALSE

\* lines 1289-1292: whether keyword name enters the branch that sets
\* params['Fs']
sets_sample_rate(name) ==
    \/ lower(name) = "fs"
    \/ lower(name) = "samplerate"
    \/ method_equals(name, "sfreq")
    \/ method_equals(name, "srate")

\* lines 1286-1333: the keyword loop.  kw.given is the set of keywords the
\* caller passed; a keyword that was not passed leaves the default.  The
\* sample rate is passed under the spelling kw.FsName; a spelling that line
\* 1289 does not take falls to the else branch (line 1332), which stores
\* the value under the spelling itself.
\* fpass is passed in hertz and kept in half hertz.
apply_keywords(kw) ==
    LET g == kw.given
        fs == "Fs" \in g /\ sets_sample_rate(kw.FsName)
    IN
    [keys |-> default_params.keys \cup (g \cap {"nfft", "fpass"})
                \cup (IF fs THEN {"Fs"}
                      ELSE IF "Fs" \in g THEN {kw.FsName} ELSE {}),
     Fs |-> IF fs THEN kw.Fs ELSE default_params.Fs,
     nfft |-> IF "nfft" \in g THEN kw.nfft ELSE default_params.nfft,
     fpass |-> IF "fpass" \in g
               THEN [i \in 1..Len(kw.fpass) |-> 2 * kw.fpass[i]]
               ELSE default_params.fpass,
     tapers |-> IF "tapers" \in g THEN kw.tapers ELSE default_params.tapers,
     Npairs |-> IF "Npairs" \in g THEN kw.Npairs ELSE default_params.Npairs,
     itc |-> IF "itc" \in g THEN kw.itc ELSE default_params.itc,
     bootstrapMode |-> IF "bootstrapMode" \in g THEN kw.bootstrapMode
                       ELSE default_params.bootstrapMode,
     returnEigenvectors |-> IF "returnEigenvectors" \in g
                            THEN kw.returnEigenvectors
                            ELSE default_params.returnEigenvectors,
     pcaComponentNumber |-> IF "pcaComponentNumber" \in g
                            THEN kw.pcaComponentNumber
                            ELSE default_params.pcaComponentNumber,
     \* line 1328: the keyword value becomes a numpy array
     pcaIsArray |-> "pcaComponentNumber" \in g]

\* line 1300: params['tapers'][1] = int(params['tapers'][1])
keywords_raise(kw) ==
    IF "tapers" \in kw.given /\ Len(kw.tapers) < 2 THEN "IndexError" ELSE "none"

\* lines 1369-1408: what _validate_parameters hands to logger.error
validate_messages(p) ==
    LET msg(c, m) == IF c THEN <<m>> ELSE <<>> IN
       msg("Fs" \notin p.keys, "sample rate must be specified")
    \o msg(Len(p.tapers) # 2, "tapers must be of form [TW,taps]")
    \o msg(Len(p.tapers) >= 1 /\ p.tapers[1] <= 0, "TW must be positive")
    \o msg(Len(p.tapers) >= 2 /\ p.tapers[2] <= 0, "ntaps must be positive")
    \o (IF "fpass" \in p.keys /\ Len(p.fpass) >= 2 /\ "Fs" \in p.keys
        THEN   msg(Len(p.fpass) # 2, "fpass must have two values")
            \o msg(p.fpass[1] < 0, "fpass[0] should be >= 0")
            \o msg(p.fpass[2] < 0, "fpass[1] should be >= 0")
            \o msg(p.fpass[1] > p.Fs, "fpass[0] should be <= Fs/2")
            \o msg(p.fpass[2] > p.Fs, "fpass[1] should be <= Fs/2")
            \o msg(p.fpass[1] >= p.fpass[2], "fpass[0] should be < fpass[1]")
        ELSE <<>>)

\* the exception, if any, that leaves _validate_parameters: an index past the
\* end of tapers or fpass (lines 1380-1395), or the read of a missing
\* params['Fs'] (lines 1398, 1410)
validate_raises(p) ==
    IF Len(p.tapers) < 2 THEN "IndexError"
    ELSE IF "fpass" \in p.keys /\ Len(p.fpass) < 2 THEN "IndexError"
    ELSE IF "Fs" \notin p.keys THEN "KeyError"
    ELSE "none"

\* lines 1409-1414: the record _validate_parameters returns
validate_parameters(p) ==
    IF "fpass" \in p.keys THEN p
    ELSE [p EXCEPT !.keys = @ \cup {"fpass"}, !.fpass = <<0, p.Fs>>]

\* generate_parameters as a whole: the exception that ends it ("none" when
\* it returns), the record it returns, and what it reported
generate_parameters(kw) ==
    LET p0 == apply_keywords(kw)
        e0 == keywords_raise(kw)
        e1 == IF e0 # "none" THEN e0 ELSE validate_raises(p0)
    IN [exc |-> e1,
        params |-> IF e1 = "none" THEN validate_parameters(p0)
                   ELSE default_params,
        returned |-> e1 = "none",
        diag |-> IF e0 # "none" THEN <<>> ELSE validate_messages(p0)]

----------------------------------------------------------------------------
(* The prologue every estimator shares: squeeze and the rank branch. *)

PerChannelOps == {"mtplv", "mtspec", "mtphase", "mtppc", "mtspecraw", "mtpspec"}
CpcaOps == {"mtcpca", "mtcspec", "mtcpca_timeDomain", "mtcpca_all"}
Ops == PerChannelOps \cup CpcaOps

\* x.squeeze(): every axis of length 1 is dropped
squeeze(xs) == SelectSeq(xs, LAMBDA d : d # 1)

\* the rank branch (mtplv lines 121-137, mtcpca lines 410-419, mtppc lines
\* 703-717, ...).  The per-channel operations take rank 3 and rank 2, the
\* cPCA operations rank 3 only; otherwise logger.error is called (mtppc has
\* no else branch) and the locals stay unbound.
shape_check(o, xs, d) ==
    LET sq == squeeze(xs)
        r3 == Len(sq) = 3
        r2 == Len(sq) = 2 /\ o \in PerChannelOps
    IN [shape    |-> sq,
        timedim  |-> IF r3 THEN 2 ELSE IF r2 THEN 1 ELSE Unbound,
        trialdim |-> IF r3 THEN 1 ELSE IF r2 THEN 0 ELSE Unbound,
        nchans   |-> IF r3 THEN sq[1] ELSE IF r2 THEN 1 ELSE Unbound,
        ntrials  |-> IF r3 THEN sq[2] ELSE IF r2 THEN sq[1] ELSE Unbound,
        diag     |-> IF r3 \/ r2 \/ o = "mtppc" THEN d
                     ELSE logger_report(d, "the data should be a 2 or 3 dimensional array")]

\* dpss_windows(N, TW, ntaps) of anlffr.dpss: the number of windows returned
dpss_windows(N, TW, ntaps) == ntaps

\* the taper request of each operation (mtcpca_timeDomain line 622 ignores
\* params['tapers'])
fetch_tapers(o, L, p) ==
    IF o = "mtcpca_timeDomain" THEN dpss_windows(L, 1, 1)
    ELSE dpss_windows(L, p.tapers[1], p.tapers[2])

----------------------------------------------------------------------------
(* mtcpca_all lines 1063-1069: the component selection *)

\* bool(params['pcaComponentNumber']): a list is true when non-empty; a numpy
\* array is false when empty, the truth of its element when it has one, and
\* raises ValueError when it has several
pca_truth(p) ==
    IF ~p.pcaIsArray THEN
        IF Len(p.pcaComponentNumber) > 0 THEN "true" ELSE "false"
    ELSE IF Len(p.pcaComponentNumber) = 0 THEN "false"
    ELSE IF Len(p.pcaComponentNumber) = 1 THEN
        IF p.pcaComponentNumber[1] # 0 THEN "true" ELSE "false"
    ELSE "ValueError"

\* select_components counting from the smallest eigenvalue
select_components_from_bottom(p) ==
    IF "pcaComponentNumber" \in p.keys /\ pca_truth(p) = "true"
    THEN [i \in 1..Len(p.pcaComponentNumber) |-> p.pcaComponentNumber[i] - 1]
    ELSE <<0>>

\* lines 1063-1067: pc = -1 * the requested ranks, -1 when none is requested
select_components(p) ==
    IF "pcaComponentNumber" \in p.keys /\ pca_truth(p) = "true"
    THEN [i \in 1..Len(p.pcaComponentNumber) |-> -1 * p.pcaComponentNumber[i]]
    ELSE <<-1>>

select_raises(p) ==
    IF "pcaComponentNumber" \in p.keys /\ pca_truth(p) = "ValueError"
    THEN "ValueError" ELSE "none"

\* vals[i] on an array of n eigenvalues: Python accepts -n <= i < n
index_ok(i, n) == -n <= i /\ i < n

\* the 0-based position vals[i] reads: a negative index counts from the end
py_index(i, n) == IF i < 0 THEN n + i ELSE i

----------------------------------------------------------------------------
(* The body of the taper loop of each operation, as the chain of array     *)
(* operations applied to x for one taper, in source order.                 *)

\* one output of one pass of the loop: the operations applied, whether it
\* holds a NaN, the eigen-indices selected, and the length of its last axis
Out(chain, nan, sel, len) ==
    [chain |-> chain, nan |-> nan, sel |-> sel, len |-> len]

\* bootstrapMode = params['bootstrapMode'], False on KeyError
bootstrap_mode(p) == IF "bootstrapMode" \in p.keys THEN p.bootstrapMode ELSE FALSE

\* mtplv lines 151-157
mtplv_chain(p) ==
    IF ~p.itc
    THEN <<"taper", "rfft", "unit", "mean_trial", "abs", "square">>
    ELSE <<"taper", "rfft", "abs2_mean_trial_over_mean_trial_abs2">>

\* mtspec_S_chain with the magnitudes taken before the mean over trials
mtspec_S_chain_magnitudes_first == <<"taper", "rfft", "abs", "mean_trial">>

\* mtspec lines 256-261
mtspec_S_chain == <<"taper", "rfft", "mean_trial", "abs">>
mtspec_N_chain == <<"taper", "rfft", "randph", "mean_trial", "abs">>

\* mtphase lines 351-352
mtphase_chain == <<"taper", "rfft", "mean_trial", "angle">>

\* mtspecraw lines 847-848
mtspecraw_chain == <<"taper", "rfft", "abs", "square", "mean_trial">>

\* mtcpca lines 431-442
mtcpca_chain(p) ==
    IF p.itc
    THEN <<"taper", "rfft", "mean_trial_over_mean_trial_abs", "squeeze",
           "outer", "eigh", "select", "div_nchans">>
    ELSE <<"taper", "rfft", "unit", "mean_trial", "squeeze",
           "outer", "eigh", "select", "div_nchans">>

\* mtcspec lines 527-532
mtcspec_chain ==
    <<"taper", "rfft", "mean_trial", "squeeze",
      "outer", "eigh", "select", "div_nchans">>

\* mtppc lines 729-761
mtppc_chain(p) ==
    IF ~p.itc
    THEN <<"taper", "rfft", "pairs", "unit", "cross", "mean_pair", "real">>
    ELSE <<"taper", "rfft", "pairs", "cross", "mean_pair", "real",
           "div_mean_abs_product">>

\* mtpspec lines 937-951
mtpspec_chain ==
    <<"taper", "rfft", "pairs", "distinct_pairs", "cross", "mean_pair", "real">>

\* mtcpca_timeDomain lines 622-640 and 643-646
y_cpc_chain ==
    <<"taper_unit_peak", "rfft", "mean_trial", "div_mean_trial_abs", "outer",
      "eigh", "top_vec", "div_abs_sum", "project", "filter", "irfft", "truncate">>
y_pc_chain ==
    <<"mean_trial", "cov", "eigh", "top_vec", "project", "div_sum">>

\* mtcpca_all lines 1084-1108: the mask comes right after the transform
all_spectrum_chain ==
    <<"taper", "rfft", "mask", "mean_trial", "squeeze",
      "outer", "eigh", "select", "div_nchans">>
all_plv_chain ==
    <<"taper", "rfft", "mask", "unit", "mean_trial", "squeeze",
      "outer", "eigh", "select", "div_nchans">>
all_itc_chain ==
    <<"taper", "rfft", "mask", "mean_trial_over_mean_trial_abs", "squeeze",
      "outer", "eigh", "select", "div_nchans">>
\* lines 1110-1113: the eigenvectors are stored as selected
all_vec_chain(c) == SubSeq(c, 1, Len(c) - 2) \o <<"select_vec", "transpose">>

\* np.random.randint(0, ntrials, (npairs, 2)) raises on a negative count
pairs_raise(p) == IF p.Npairs < 0 THEN "ValueError" ELSE "none"

\* mtcpca_all lines 1075 and 1120: the eigenvector arrays are allocated and
\* returned when the record has the key and its value is true
eigenvectors_requested(p) ==
    "returnEigenvectors" \in p.keys /\ p.returnEigenvectors

\* mtcpca_all line 1110: params['returnEigenvectors'] is read with no test
\* for the key; a record without it raises KeyError
read_returnEigenvectors(p) ==
    IF "returnEigenvectors" \in p.keys THEN "none" ELSE "KeyError"

\* mtcpca_all: C = (...).squeeze() drops the frequency axis when the passband
\* holds one bin, and C[:, fi] then raises; with two bins or more,
\* powerEigenvals[pc] raises when an index is out of range (line 1100)
all_raises(nch, nbm, sel) ==
    IF nbm = 1 THEN "IndexError"
    ELSE IF nbm >= 2 /\ \E i \in 1..Len(sel) : ~index_ok(sel[i], nch)
         THEN "IndexError"
    ELSE "none"

\* xw / abs(xw): a coefficient of magnitude zero gives 0/0, which numpy
\* evaluates to NaN (with a warning, without raising); the mean over trials
\* of the normalized coefficients is then NaN as well
unit_nan(zero) == zero

\* scipy.linalg.eigh with check_finite at its default: a matrix that holds a
\* NaN raises ValueError
eigh_raises(nan) == IF nan THEN "ValueError" ELSE "none"

\* mtppc lines 736-745 for a draw that left kept pairs clear of the zero
\* trial: the mean over no pairs is NaN; with itc off every pair that holds
\* the zero trial is NaN after the normalization; with itc on the quotient
\* is 0/0 when the one drawn pair holds the zero trial (pair counts above
\* one are not drawn here)
mtppc_nan(p, kept) ==
    \/ p.Npairs = 0
    \/ IF ~p.itc THEN kept < p.Npairs ELSE kept = 0

\* np.fft.irfft(a) without n: the output has 2 * (len(a) - 1) samples
irfft_len(m) == 2 * (m - 1)

\* y[:L] on an array of n samples
truncate(n, L) == IF n < L THEN n ELSE L

\* one iteration of the loop: the exception that ends it, or its outputs.
\* e holds the locals the body reads: nch and ntr the channel and trial
\* counts, L the sample count, nfull the number of bins of the transform,
\* nbm the number of passband bins, sel the selected eigen-indices, zero
\* whether one trial of the recording is zero; kept is the outcome of the
\* random draw of trial pairs.
taper_body(o, p, e, kept) ==
    CASE o = "mtplv" ->
           \* line 154 normalizes, lines 156-157 divide by the mean power
           [exc |-> "none",
            outs |-> <<Out(mtplv_chain(p), ~p.itc /\ unit_nan(e.zero), <<>>, e.nfull)>>]
      [] o = "mtspec" ->
           [exc |-> "none", outs |-> <<Out(mtspec_S_chain, FALSE, <<>>, e.nfull),
                                       Out(mtspec_N_chain, FALSE, <<>>, e.nfull)>>]
      [] o = "mtphase" ->
           [exc |-> "none", outs |-> <<Out(mtphase_chain, FALSE, <<>>, e.nfull)>>]
      [] o = "mtspecraw" ->
           [exc |-> "none", outs |-> <<Out(mtspecraw_chain, FALSE, <<>>, e.nfull)>>]
      [] o = "mtcpca" ->
           \* line 437 normalizes, lines 434-435 divide by the mean magnitude
           [exc |-> eigh_raises(~p.itc /\ unit_nan(e.zero)),
            outs |-> <<Out(mtcpca_chain(p), FALSE, <<-1>>, e.nfull)>>]
      [] o = "mtcspec" ->
           [exc |-> "none", outs |-> <<Out(mtcspec_chain, FALSE, <<-1>>, e.nfull)>>]
      [] o = "mtcpca_timeDomain" ->
           \* line 630 divides by the mean magnitude over trials
           \* line 641: irfft of the len(fInd) coefficients, cut at the
           \* sample count; irfft refuses an output of no sample
           [exc |-> IF irfft_len(e.nfull) < 1 THEN "ValueError" ELSE "none",
            outs |-> <<Out(y_cpc_chain, FALSE, <<-1>>,
                           truncate(irfft_len(e.nfull), e.L)),
                       Out(y_pc_chain, FALSE, <<-1>>, e.L)>>]
      [] o = "mtppc" ->
           [exc |-> pairs_raise(p),
            outs |-> <<Out(mtppc_chain(p), mtppc_nan(p, kept), <<>>, e.nfull)>>]
      [] o = "mtpspec" ->
           \* the mean over zero surviving pairs is NaN
           [exc |-> pairs_raise(p),
            outs |-> <<Out(mtpspec_chain, kept = 0, <<>>, e.nfull)>>]
      [] o = "mtcpca_all" ->
           \* line 1095 normalizes; its matrix reaches eigh at line 1103;
           \* line 1110 closes the first pass over the bins
           [exc |-> IF all_raises(e.nch, e.nbm, e.sel) # "none"
                    THEN all_raises(e.nch, e.nbm, e.sel)
                    ELSE IF e.nbm >= 2
                    THEN IF eigh_raises(unit_nan(e.zero)) # "none"
                         THEN eigh_raises(unit_nan(e.zero))
                         ELSE read_returnEigenvectors(p)
                    ELSE "none",
            outs |-> <<Out(all_spectrum_chain, FALSE, e.sel, e.nbm),
                       Out(all_plv_chain, FALSE, e.sel, e.nbm),
                       Out(all_itc_chain, FALSE, e.sel, e.nbm)>>
                     \o (IF eigenvectors_requested(p)
                         THEN <<Out(all_vec_chain(all_spectrum_chain), FALSE, e.sel, e.nbm),
                                Out(all_vec_chain(all_plv_chain), FALSE, e.sel, e.nbm),
                                Out(all_vec_chain(all_itc_chain), FALSE, e.sel, e.nbm)>>
                         ELSE <<>>)]

\* rng_draws with a draw in the loop body of every operation
rng_draws_in_every_operation(o, p) == 1

\* how many times one pass of the loop body draws from np.random: mtspec
\* draws its phases (line 260), mtppc and mtpspec their trial pairs (lines
\* 732 and 939; a request for no pair takes nothing from the generator)
rng_draws(o, p) ==
    IF o = "mtspec" THEN 1
    ELSE IF o \in {"mtppc", "mtpspec"} /\ p.Npairs >= 1 THEN 1
    ELSE 0

\* how many times the loop body runs: once per taper; mtpspec (lines 934-935)
\* once per channel and taper
iterations(o, nch, nw) == IF o = "mtpspec" THEN nch * nw ELSE nw

\* what a draw of npairs trial pairs can leave: for mtpspec the number of
\* pairs that survive the i # j filter, for mtppc the number of pairs that
\* do not hold the zero trial
kept_choices(o, p, ntr, zero) ==
    IF p.Npairs <= 0 THEN {0}
    ELSE IF o = "mtpspec" THEN (IF ntr < 2 THEN {0} ELSE 0..p.Npairs)
    ELSE IF o = "mtppc" THEN (IF zero THEN 0..p.Npairs ELSE {p.Npairs})
    ELSE {0}

\* draw_from with a generator that was not put back to its earlier state
draw_from_unseeded(o, p, ntr, zero, c, k, d) == kept_choices(o, p, ntr, zero)

\* the draw of pass k of the loop in call c: free in the first call; in a
\* repeated call the generator was put back to the state it had before the
\* first call, and the draws d of the first call come again
draw_from(o, p, ntr, zero, c, k, d) ==
    IF c >= 2 /\ k < Len(d) THEN {d[k + 1]}
    ELSE kept_choices(o, p, ntr, zero)

----------------------------------------------------------------------------
(* After the loop: the taper average, the mask, and the returned container *)

\* how often token t occurs in chain c
Count(c, t) == Cardinality({i \in 1..Len(c) : c[i] = t})

\* post_ops with the mask applied before the taper average everywhere
post_ops_mask_first(o, j) ==
    IF o = "mtcpca_timeDomain" THEN <<>>
    ELSE IF o = "mtcpca_all"
         THEN (IF j <= 3 THEN <<"mean_taper", "squeeze">> ELSE <<"squeeze">>)
    ELSE <<"mask", "mean_taper", "squeeze">>

\* the operations applied to output j after the loop, in source order
post_ops(o, j) ==
    CASE o \in {"mtplv", "mtspec", "mtppc", "mtspecraw", "mtpspec"} ->
           <<"mean_taper", "mask", "squeeze">>
      [] o = "mtphase" -> <<"mask", "mean_taper", "squeeze">>
      [] o \in {"mtcpca", "mtcspec"} -> <<"mean_taper", "squeeze", "mask">>
      [] o = "mtcpca_timeDomain" -> <<>>
      [] o = "mtcpca_all" ->
           IF j <= 3 THEN <<"mean_taper", "squeeze">> ELSE <<"squeeze">>

\* the keys of the bootstrap-mode dictionary, in the order of the tuple
out_names(o, p) ==
    CASE o = "mtplv" -> <<"mtplv">>
      [] o = "mtspec" -> <<"mtspec", "mtspec_noise">>
      [] o = "mtphase" -> <<"mtphase">>
      [] o = "mtcpca" -> <<"mtcplv">>
      [] o = "mtcspec" -> <<"mtcspec">>
      [] o = "mtcpca_timeDomain" -> <<"y_cpc", "y_pc">>
      [] o = "mtppc" -> <<"mtppc">>
      [] o = "mtspecraw" -> <<"mtspecraw">>
      [] o = "mtpspec" -> <<"pspec">>
      [] o = "mtcpca_all" ->
           <<"spectrum", "plv", "itc">>
           \o (IF eigenvectors_requested(p)
               THEN <<"spectrumV", "plvV", "itcV">> ELSE <<>>)

\* returns_f with a frequency axis in every return statement
returns_f_everywhere(o) == o \in Ops

\* mtcpca_timeDomain returns its two waveforms and no frequency axis
returns_f(o) == o # "mtcpca_timeDomain"

\* the container: a dictionary in bootstrap mode, a tuple otherwise
container_of(p) == IF bootstrap_mode(p) THEN "dict" ELSE "tuple"

NoResult ==
    [container |-> "none", names |-> <<>>, outs |-> <<>>,
     has_f |-> FALSE, f |-> <<>>]

\* package whose bootstrap-mode dictionary holds the first output only
package_dict_first_only(o, p, accs, fm) ==
    LET names == IF bootstrap_mode(p) THEN <<out_names(o, p)[1]>>
                 ELSE out_names(o, p) IN
    [container |-> container_of(p),
     names |-> names,
     outs |-> [j \in 1..Len(names) |->
                 [taps |-> [i \in 1..Len(accs) |-> accs[i][j].chain],
                  post |-> post_ops(o, j),
                  nan  |-> \E i \in 1..Len(accs) : accs[i][j].nan,
                  sel  |-> accs[1][j].sel,
                  \* the mask leaves the passband bins of the last axis
                  len  |-> IF Count(post_ops(o, j), "mask") > 0 THEN Len(fm)
                           ELSE accs[1][j].len]],
     has_f |-> returns_f(o),
     f |-> IF returns_f(o) THEN fm ELSE <<>>]

package(o, p, accs, fm) ==
    LET names == out_names(o, p) IN
    [container |-> container_of(p),
     names |-> names,
     outs |-> [j \in 1..Len(names) |->
                 [taps |-> [i \in 1..Len(accs) |-> accs[i][j].chain],
                  post |-> post_ops(o, j),
                  nan  |-> \E i \in 1..Len(accs) : accs[i][j].nan,
                  sel  |-> accs[1][j].sel,
                  \* the mask leaves the passband bins of the last axis
                  len  |-> IF Count(post_ops(o, j), "mask") > 0 THEN Len(fm)
                           ELSE accs[1][j].len]],
     has_f |-> returns_f(o),
     f |-> IF returns_f(o) THEN fm ELSE <<>>]

----------------------------------------------------------------------------
(* Inputs *)

\* spellings under which a caller passes the sample rate
SampleRateSpellings ==
    {"Fs", "fs", "FS", "samplerate", "SampleRate", "sfreq", "SFreq", "srate",
     "SRATE"}

KwNames == {"Fs", "nfft", "tapers", "fpass", "Npairs", "itc", "bootstrapMode",
            "returnEigenvectors", "pcaComponentNumber"}

\* the keyword records over the value sets V that pass the keywords of g
KwFor(g, V) ==
    [given : {g},
     FsName : IF "Fs" \in g THEN V.FsName ELSE {"Fs"},
     Fs : IF "Fs" \in g THEN V.Fs ELSE {0},
     nfft : IF "nfft" \in g THEN V.nfft ELSE {0},
     tapers : IF "tapers" \in g THEN V.tapers ELSE {<<>>},
     fpass : IF "fpass" \in g THEN V.fpass ELSE {<<>>},
     Npairs : IF "Npairs" \in g THEN V.Npairs ELSE {0},
     itc : IF "itc" \in g THEN V.itc ELSE {FALSE},
     bootstrapMode : IF "bootstrapMode" \in g THEN V.bootstrapMode ELSE {FALSE},
     returnEigenvectors : IF "returnEigenvectors" \in g
                          THEN V.returnEigenvectors ELSE {FALSE},
     pcaComponentNumber : IF "pcaComponentNumber" \in g
                          THEN V.pcaComponentNumber ELSE {<<>>}]

\* keyword sets of at most MaxKw keywords besides the sample rate
KwArgsOver(V, names) ==
    UNION {KwFor(g, V) :
             g \in {s \in SUBSET names : Cardinality(s \ {"Fs"}) <= MaxKw}}

\* keywords passed before an estimator is called: a sample rate of 8 Hz
\* always, well-formed values otherwise
CallValues ==
    [FsName |-> {"Fs"},
     Fs |-> {8}, nfft |-> {3, 6}, tapers |-> {<<1, 2>>},
     fpass |-> {<<1, 4>>, <<1, 3>>}, Npairs |-> {1}, itc |-> {TRUE},
     bootstrapMode |-> {TRUE}, returnEigenvectors |-> {TRUE},
     pcaComponentNumber |-> {<<>>, <<0>>, <<2>>, <<3>>, <<1, 2>>}]

CallKwArgs ==
    {kw \in KwArgsOver(CallValues, KwNames \ {"bootstrapMode"}) :
        "Fs" \in kw.given}

\* keywords passed to generate_parameters on its own: also ill-formed ones
AnyValues ==
    [FsName |-> SampleRateSpellings,
     Fs |-> {8}, nfft |-> {3},
     tapers |-> {<<1, 2>>, <<0, 1>>, <<1, 0>>, <<2>>, <<1, 1, 1>>},
     fpass |-> {<<1, 3>>, <<3, 1>>, <<2, 2>>, <<-1, 2>>, <<1, 5>>, <<2>>,
                <<1, 2, 3>>},
     Npairs |-> {1}, itc |-> {TRUE},
     bootstrapMode |-> {TRUE}, returnEigenvectors |-> {TRUE},
     pcaComponentNumber |-> {<<0>>, <<1, 2>>}]

AnyKwArgs == KwArgsOver(AnyValues, KwNames)

\* recordings: rank 1 to 3 with channel and trial counts up to MaxDim, and
\* rank 4 with a leading axis of length 1; TimeLen samples
Dims == 1..MaxDim

Shapes ==
       {<<TimeLen>>}
    \cup {<<n, TimeLen>> : n \in Dims}
    \cup {<<c, n, TimeLen>> : c \in Dims, n \in Dims}
    \cup {<<1, c, n, TimeLen>> : c \in Dims, n \in Dims}

\* a recording with a trial axis (the axis before time) of two or more trials
has_trials(xs) == Len(xs) >= 2 /\ xs[Len(xs) - 1] >= 2

\* the operations that divide transform coefficients by a magnitude (mtplv
\* lines 154-157, mtcpca 434-437, mtcpca_timeDomain 630, mtppc 736-761,
\* mtcpca_all 1092-1095)
MagnitudeDividers ==
    {"mtplv", "mtppc", "mtcpca", "mtcpca_all", "mtcpca_timeDomain"}

\* the keywords an operation reads besides Fs, nfft and fpass
reads(o) ==
       (IF o = "mtcpca_timeDomain" THEN {} ELSE {"tapers"})
    \cup (IF o \in {"mtplv", "mtcpca", "mtppc"} THEN {"itc"} ELSE {})
    \cup (IF o \in {"mtppc", "mtpspec"} THEN {"Npairs"} ELSE {})
    \cup (IF o = "mtcpca_all"
          THEN {"returnEigenvectors", "pcaComponentNumber"} ELSE {})

\* a configuration is paired with an operation when every keyword the
\* operation does not read has its default value
relevant(o, p) ==
    /\ "tapers" \in reads(o) \/ p.tapers = default_params.tapers
    /\ "itc" \in reads(o) \/ p.itc = default_params.itc
    /\ "Npairs" \in reads(o) \/ p.Npairs = default_params.Npairs
    /\ "returnEigenvectors" \in reads(o)
         \/ p.returnEigenvectors = default_params.returnEigenvectors
    /\ "pcaComponentNumber" \in reads(o)
         \/ p.pcaComponentNumber = default_params.pcaComponentNumber

\* the taper provider is asked for a positive number of windows of positive
\* bandwidth
tapers_usable(p) ==
    Len(p.tapers) >= 2 /\ p.tapers[1] > 0 /\ p.tapers[2] > 0

----------------------------------------------------------------------------
(* The state machine *)

NoPrev == [outcome |-> "none", result |-> NoResult]

Init ==
    /\ pc = "start"
    /\ op = "none"
    /\ x_shape = <<>>
    /\ x_zero = FALSE
    /\ params = default_params
    /\ shape = <<>>
    /\ timedim = Unbound
    /\ trialdim = Unbound
    /\ nchans = Unbound
    /\ ntrials = Unbound
    /\ nfft = 0
    /\ f_full = <<>>
    /\ fInd = <<>>
    /\ f = <<>>
    /\ w = 0
    /\ pcsel = <<>>
    /\ ktap = 0
    /\ acc = <<>>
    /\ drawn = <<>>
    /\ rng = 0
    /\ diag = <<>>
    /\ outcome = "none"
    /\ result = NoResult
    /\ calls = 0
    /\ prev = NoPrev

locals == <<shape, timedim, trialdim, nchans, ntrials, nfft, f_full, fInd, f,
            w, pcsel, ktap, acc>>

\* generate_parameters(**kw)
GenerateParameters(kw) ==
    /\ pc = "start"
    /\ LET r == generate_parameters(kw) IN
         /\ params' = r.params
         /\ diag' = r.diag
         /\ pc' = IF r.returned THEN "configured" ELSE "config_failed"
         /\ outcome' = IF r.returned THEN "none" ELSE r.exc
    /\ UNCHANGED <<op, x_shape, x_zero, locals, drawn, rng, result, calls, prev>>

\* the caller invokes operation o on a recording of shape xs; with z, one
\* of its two or more trials is zero at every sample (a case drawn for the
\* operations that divide by a magnitude; the others compute the same with
\* and without it)
Call(o, xs, z) ==
    /\ pc = "configured"
    /\ tapers_usable(params)
    /\ relevant(o, params)
    /\ z => (has_trials(xs) /\ o \in MagnitudeDividers)
    /\ op' = o
    /\ x_shape' = xs
    /\ x_zero' = z
    /\ pc' = "squeeze"
    /\ calls' = 1
    /\ diag' = <<>>
    /\ UNCHANGED <<params, locals, drawn, rng, outcome, result, prev>>

\* x = x.squeeze() and the rank branch
ShapeCheck ==
    /\ pc = "squeeze"
    /\ LET r == shape_check(op, x_shape, diag) IN
         /\ shape' = r.shape
         /\ timedim' = r.timedim
         /\ trialdim' = r.trialdim
         /\ nchans' = r.nchans
         /\ ntrials' = r.ntrials
         /\ diag' = r.diag
    /\ pc' = IF op = "mtppc" THEN "tapers" ELSE "freq"
    /\ UNCHANGED <<op, x_shape, x_zero, params, nfft, f_full, fInd, f, w, pcsel, ktap,
                   acc, drawn, rng, outcome, result, calls, prev>>

\* nfft, f, fInd = _get_freq_vector(x, params, timedim); reading the unbound
\* local timedim raises before the function is entered
GetFreqVector ==
    /\ pc = "freq"
    /\ IF timedim = Unbound
       THEN /\ outcome' = "UnboundLocalError"
            /\ pc' = "done"
            /\ UNCHANGED <<nfft, f_full, fInd, f, diag>>
       ELSE LET r == get_freq_vector(shape[timedim + 1], params, diag) IN
            /\ nfft' = r.nfft
            /\ f_full' = r.full
            /\ fInd' = r.fInd
            /\ f' = r.f
            /\ diag' = r.diag
            /\ outcome' = IF op = "_get_freq_vector" THEN "returned" ELSE outcome
            /\ pc' = IF op = "_get_freq_vector" THEN "done"
                     ELSE IF op = "mtppc" THEN "loop" ELSE "tapers"
    /\ UNCHANGED <<op, x_shape, x_zero, params, shape, timedim, trialdim, nchans,
                   ntrials, w, pcsel, ktap, acc, drawn, rng, result, calls, prev>>

\* w, conc = dpss_windows(x.shape[timedim], TW, ntaps)
FetchTapers ==
    /\ pc = "tapers"
    /\ IF timedim = Unbound
       THEN /\ outcome' = "UnboundLocalError"
            /\ pc' = "done"
            /\ w' = w
       ELSE /\ w' = fetch_tapers(op, shape[timedim + 1], params)
            /\ outcome' = outcome
            /\ pc' = IF op = "mtppc" THEN "freq"
                     ELSE IF op = "mtcpca_all" THEN "select" ELSE "loop"
    /\ UNCHANGED <<op, x_shape, x_zero, params, shape, timedim, trialdim, nchans,
                   ntrials, nfft, f_full, fInd, f, pcsel, ktap, acc, drawn, rng,
                   diag, result, calls, prev>>

\* mtcpca_all lines 1063-1078
SelectComponents ==
    /\ pc = "select"
    /\ IF select_raises(params) # "none"
       THEN /\ outcome' = select_raises(params)
            /\ pc' = "done"
            /\ pcsel' = pcsel
       ELSE /\ pcsel' = select_components(params)
            /\ outcome' = outcome
            /\ pc' = "loop"
    /\ UNCHANGED <<op, x_shape, x_zero, params, shape, timedim, trialdim, nchans,
                   ntrials, nfft, f_full, fInd, f, w, ktap, acc, drawn, rng, diag,
                   result, calls, prev>>

\* one pass through the body of the taper loop.  In the first call the
\* random draw is free; the repeated call takes the draws of the first.
TaperIteration ==
    /\ pc = "loop"
    /\ ktap < iterations(op, nchans, w)
    /\ \E kept \in draw_from(op, params, ntrials, x_zero, calls, ktap, drawn) :
         LET e == [nch |-> nchans, ntr |-> ntrials, L |-> shape[timedim + 1],
                   nfull |-> Len(f_full), nbm |-> Len(f), sel |-> pcsel,
                   zero |-> x_zero]
             r == taper_body(op, params, e, kept) IN
           IF r.exc # "none"
           THEN /\ outcome' = r.exc
                /\ pc' = "done"
                /\ UNCHANGED <<ktap, acc, drawn, rng>>
           ELSE /\ acc' = Append(acc, r.outs)
                /\ ktap' = ktap + 1
                /\ drawn' = IF calls >= 2 THEN drawn ELSE Append(drawn, kept)
                /\ rng' = rng + rng_draws(op, params)
                /\ UNCHANGED <<outcome, pc>>
    /\ UNCHANGED <<op, x_shape, x_zero, params, shape, timedim, trialdim, nchans,
                   ntrials, nfft, f_full, fInd, f, w, pcsel, diag, result,
                   calls, prev>>

\* the taper average, the mask and the return statement
Finish ==
    /\ pc = "loop"
    /\ ktap = iterations(op, nchans, w)
    /\ result' = package(op, params, acc, f)
    /\ outcome' = "returned"
    /\ pc' = "done"
    /\ UNCHANGED <<op, x_shape, x_zero, params, locals, drawn, rng, diag, calls, prev>>

\* the same operation is called again on the same recording with the other
\* value of params['bootstrapMode'] and the same random draws
CallOtherMode ==
    /\ pc = "done"
    /\ calls = 1
    /\ op \in Ops
    /\ prev' = [outcome |-> outcome, result |-> result]
    /\ params' = [params EXCEPT !.bootstrapMode = ~bootstrap_mode(params),
                                !.keys = @ \cup {"bootstrapMode"}]
    /\ calls' = 2
    /\ pc' = "squeeze"
    /\ shape' = <<>>
    /\ timedim' = Unbound
    /\ trialdim' = Unbound
    /\ nchans' = Unbound
    /\ ntrials' = Unbound
    /\ nfft' = 0
    /\ f_full' = <<>>
    /\ fInd' = <<>>
    /\ f' = <<>>
    /\ w' = 0
    /\ pcsel' = <<>>
    /\ ktap' = 0
    /\ acc' = <<>>
    /\ diag' = <<>>
    /\ outcome' = "none"
    /\ result' = NoResult
    /\ UNCHANGED <<op, x_shape, x_zero, drawn, rng>>

\* the same operation is called again on the same recording with the same
\* configuration and the same random draws
CallAgain ==
    /\ pc = "done"
    /\ calls = 1
    /\ op \in Ops
    /\ prev' = [outcome |-> outcome, result |-> result]
    /\ calls' = 3
    /\ pc' = "squeeze"
    /\ shape' = <<>>
    /\ timedim' = Unbound
    /\ trialdim' = Unbound
    /\ nchans' = Unbound
    /\ ntrials' = Unbound
    /\ nfft' = 0
    /\ f_full' = <<>>
    /\ fInd' = <<>>
    /\ f' = <<>>
    /\ w' = 0
    /\ pcsel' = <<>>
    /\ ktap' = 0
    /\ acc' = <<>>
    /\ diag' = <<>>
    /\ outcome' = "none"
    /\ result' = NoResult
    /\ UNCHANGED <<op, x_shape, x_zero, params, drawn, rng>>

Next ==
    \/ \E kw \in CallKwArgs : GenerateParameters(kw)
    \/ \E o \in Ops, xs \in Shapes, z \in BOOLEAN : Call(o, xs, z)
    \/ ShapeCheck
    \/ GetFreqVector
    \/ FetchTapers
    \/ SelectComponents
    \/ TaperIteration
    \/ Finish
    \/ CallOtherMode
    \/ CallAgain

Spec == Init /\ [][Next]_vars

----------------------------------------------------------------------------
(* _get_freq_vector on its own: the inputs are drawn, the function applied *)

FreqParams ==
    {[default_params EXCEPT
         !.keys = @ \cup {"Fs", "fpass"} \cup (IF n >= 0 THEN {"nfft"} ELSE {}),
         !.Fs = fs,
         !.nfft = IF n >= 0 THEN n ELSE 0,
         !.fpass = <<lo, hi>>] :
       fs \in 1..MaxFs, n \in -1..MaxNfft, lo \in 0..MaxEdge, hi \in 0..MaxEdge}

InitFreq ==
    /\ pc = "freq"
    /\ op = "_get_freq_vector"
    /\ \E L \in 1..MaxLen :
         /\ x_shape = <<2, L>>
         /\ shape = <<2, L>>
    /\ x_zero = FALSE
    /\ params \in FreqParams
    /\ timedim = 1
    /\ trialdim = 0
    /\ nchans = 1
    /\ ntrials = 2
    /\ nfft = 0
    /\ f_full = <<>>
    /\ fInd = <<>>
    /\ f = <<>>
    /\ w = 0
    /\ pcsel = <<>>
    /\ ktap = 0
    /\ acc = <<>>
    /\ drawn = <<>>
    /\ rng = 0
    /\ diag = <<>>
    /\ outcome = "none"
    /\ result = NoResult
    /\ calls = 1
    /\ prev = NoPrev

NextFreq == GetFreqVector

SpecFreq == InitFreq /\ [][NextFreq]_vars

----------------------------------------------------------------------------
(* mtcpca_timeDomain on its own: the sample count, the sample rate, the     *)
(* transform-size override and the passband are drawn, the recording has    *)
(* two channels and two trials                                              *)

InitWave ==
    /\ pc = "squeeze"
    /\ op = "mtcpca_timeDomain"
    /\ \E L \in 1..MaxLen : x_shape = <<2, 2, L>>
    /\ x_zero = FALSE
    /\ params \in FreqParams
    /\ shape = <<>>
    /\ timedim = Unbound
    /\ trialdim = Unbound
    /\ nchans = Unbound
    /\ ntrials = Unbound
    /\ nfft = 0
    /\ f_full = <<>>
    /\ fInd = <<>>
    /\ f = <<>>
    /\ w = 0
    /\ pcsel = <<>>
    /\ ktap = 0
    /\ acc = <<>>
    /\ drawn = <<>>
    /\ rng = 0
    /\ diag = <<>>
    /\ outcome = "none"
    /\ result = NoResult
    /\ calls = 1
    /\ prev = NoPrev

NextWave ==
    \/ ShapeCheck
    \/ GetFreqVector
    \/ FetchTapers
    \/ TaperIteration
    \/ Finish

SpecWave == InitWave /\ [][NextWave]_vars

----------------------------------------------------------------------------
(* mtcpca_all on its own, called with a configuration record the caller     *)
(* assembled: a record generate_parameters returned, or that record without *)
(* the key 'returnEigenvectors'                                             *)

AllKwArgs ==
    {kw \in KwArgsOver(CallValues, {"Fs", "nfft", "fpass", "returnEigenvectors",
                                    "pcaComponentNumber"}) :
        "Fs" \in kw.given}

without_returnEigenvectors(p) ==
    [p EXCEPT !.keys = @ \ {"returnEigenvectors"},
              !.returnEigenvectors = FALSE]

HandBuiltParams ==
    LET made == {generate_parameters(kw).params : kw \in AllKwArgs} IN
    made \cup {without_returnEigenvectors(p) : p \in made}

InitAll ==
    /\ pc = "squeeze"
    /\ op = "mtcpca_all"
    /\ x_shape \in {xs \in Shapes : Len(xs) \in {2, 3}}
    /\ x_zero \in {z \in BOOLEAN : z => has_trials(x_shape)}
    /\ params \in HandBuiltParams
    /\ shape = <<>>
    /\ timedim = Unbound
    /\ trialdim = Unbound
    /\ nchans = Unbound
    /\ ntrials = Unbound
    /\ nfft = 0
    /\ f_full = <<>>
    /\ fInd = <<>>
    /\ f = <<>>
    /\ w = 0
    /\ pcsel = <<>>
    /\ ktap = 0
    /\ acc = <<>>
    /\ drawn = <<>>
    /\ rng = 0
    /\ diag = <<>>
    /\ outcome = "none"
    /\ result = NoResult
    /\ calls = 1
    /\ prev = NoPrev

NextAll ==
    \/ ShapeCheck
    \/ GetFreqVector
    \/ FetchTapers
    \/ SelectComponents
    \/ TaperIteration
    \/ Finish

SpecAll == InitAll /\ [][NextAll]_vars

----------------------------------------------------------------------------
(* generate_parameters on its own, ill-formed keywords included *)

NextParams == \E kw \in AnyKwArgs : GenerateParameters(kw)

SpecParams == Init /\ [][NextParams]_vars

----------------------------------------------------------------------------
(* Properties of _get_freq_vector, checked under SpecFreq *)

IsPow2(n) == \E e \in 0..n : Pow2(e) = n

StrictlyIncreasing(s) == \A i \in 1..Len(s) - 1 : s[i] < s[i + 1]

Elems(s) == {s[i] : i \in 1..Len(s)}

FreqDone == pc = "done" /\ op = "_get_freq_vector"

\* the sample count _get_freq_vector reads, x.shape[timeDim]
SampleCount == shape[timedim + 1]

\* C1: for every sample count L >= 1 the call returns; the transform size is
\* the smallest power of two >= L when no override is given or the override
\* is < L, and the override itself when the override is >= L.
C1_TransformSize ==
    FreqDone =>
      /\ outcome = "returned"
      /\ IF "nfft" \in params.keys /\ params.nfft >= SampleCount
         THEN nfft = params.nfft
         ELSE /\ IsPow2(nfft)
              /\ nfft >= SampleCount
              /\ \A m \in 1..(nfft - 1) : IsPow2(m) => m < SampleCount

\* an override below the sample count was given, reported and replaced
C1_Witness ==
    /\ FreqDone
    /\ "nfft" \in params.keys
    /\ params.nfft < SampleCount
    /\ nfft > params.nfft
    /\ diag # <<>>

\* C2: the full axis has floor(nfft/2)+1 bins, all non-negative and strictly
\* increasing, and the masked axis is a strictly increasing subsequence of it.
C2_FrequencyAxis ==
    FreqDone =>
      /\ Len(f_full) = (nfft \div 2) + 1
      /\ \A i \in 1..Len(f_full) : f_full[i] >= 0
      /\ StrictlyIncreasing(f_full)
      /\ StrictlyIncreasing(f)
      /\ Elems(f) \subseteq Elems(f_full)

\* an even transform size (its last bin is the folded Nyquist bin) with a
\* proper, non-empty passband selection
C2_Witness ==
    /\ FreqDone
    /\ nfft % 2 = 0
    /\ nfft >= 4
    /\ Len(f) >= 2
    /\ Len(f) < Len(f_full)

\* C3: the mask is true exactly at the bins with flo <= f <= fhi, both ends
\* included, and the returned axis holds exactly those bins in order.
C3_PassbandMask ==
    FreqDone =>
      /\ Len(fInd) = Len(f_full)
      /\ \A i \in 1..Len(f_full) :
           fInd[i] <=> /\ params.fpass[1] * nfft <= 2 * f_full[i]
                       /\ 2 * f_full[i] <= params.fpass[2] * nfft
      /\ Elems(f) = {f_full[i] : i \in {j \in 1..Len(f_full) : fInd[j]}}
      /\ StrictlyIncreasing(f)

\* a bin lies exactly on the upper edge and is selected, another is left out
C3_Witness ==
    /\ FreqDone
    /\ \E i \in 1..Len(f_full) :
         fInd[i] /\ 2 * f_full[i] = params.fpass[2] * nfft
    /\ \E i \in 1..Len(f_full) :
         fInd[i] /\ 2 * f_full[i] = params.fpass[1] * nfft /\ f_full[i] > 0
    /\ \E i \in 1..Len(f_full) : ~fInd[i]

----------------------------------------------------------------------------
(* Properties of the estimators, checked under Spec *)

Returned == pc = "done" /\ outcome = "returned"

InCall == pc \in {"squeeze", "freq", "tapers", "select", "loop", "done"}

Failed == pc = "done" /\ outcome \notin {"none", "returned"}

\* position of the first occurrence of token t in chain c, 0 when absent
Pos(c, t) ==
    IF \E i \in 1..Len(c) : c[i] = t
    THEN CHOOSE i \in 1..Len(c) : c[i] = t /\ \A j \in 1..(i - 1) : c[j] # t
    ELSE 0

\* the operations output o went through for taper i, loop body then epilogue
Pipeline(o, i) == o.taps[i] \o o.post

\* tokens that aggregate over trials (or over drawn trial pairs)
TrialAggregations ==
    {"mean_trial", "mean_pair", "abs2_mean_trial_over_mean_trial_abs2",
     "mean_trial_over_mean_trial_abs"}

FirstAggregation(c) ==
    IF \E i \in 1..Len(c) : c[i] \in TrialAggregations
    THEN CHOOSE i \in 1..Len(c) :
           c[i] \in TrialAggregations
           /\ \A j \in 1..(i - 1) : c[j] \notin TrialAggregations
    ELSE 0

\* the mask comes after the trial aggregation and after the taper average
MaskAfterAverage(o) ==
    \A i \in 1..Len(o.taps) :
      LET c == Pipeline(o, i) IN
        /\ Count(c, "mask") = 1
        /\ Pos(c, "rfft") < Pos(c, "mask")
        /\ 0 < FirstAggregation(c) /\ FirstAggregation(c) < Pos(c, "mask")
        /\ 0 < Pos(c, "mean_taper") /\ Pos(c, "mean_taper") < Pos(c, "mask")

\* the mask comes after the trial aggregation but before the taper average
MaskBetween(o) ==
    \A i \in 1..Len(o.taps) :
      LET c == Pipeline(o, i) IN
        /\ Count(c, "mask") = 1
        /\ Pos(c, "rfft") < Pos(c, "mask")
        /\ 0 < FirstAggregation(c) /\ FirstAggregation(c) < Pos(c, "mask")
        /\ Pos(c, "mask") < Pos(c, "mean_taper")

\* the mask comes right after the transform, before the trial aggregation
MaskAfterTransform(o) ==
    \A i \in 1..Len(o.taps) :
      LET c == Pipeline(o, i) IN
        /\ Count(c, "mask") = 1
        /\ Pos(c, "rfft") > 0
        /\ Pos(c, "mask") = Pos(c, "rfft") + 1
        /\ Pos(c, "mask") < FirstAggregation(c)

MaskingOps == {"mtplv", "mtspec", "mtphase", "mtcpca", "mtcspec", "mtppc",
               "mtspecraw", "mtpspec", "mtcpca_all"}

MaskLastOps == {"mtplv", "mtspec", "mtcpca", "mtcspec", "mtppc", "mtspecraw",
                "mtpspec"}

\* C4 as claimed: in every estimator the mask is applied after the per-taper
\* statistic was computed on the full bin set and averaged over tapers.
C4_MaskLastInEveryEstimator ==
    (Returned /\ op \in MaskingOps) =>
      \A j \in 1..Len(result.outs) : MaskAfterAverage(result.outs[j])

\* C4 as amended: mtplv, mtspec, mtcpca, mtcspec, mtppc, mtspecraw and mtpspec
\* mask after the taper average; mtphase masks after the trial aggregation
\* and before the taper average; mtcpca_all masks the transform coefficients
\* of each taper before the trial aggregation.  The mask is always applied
\* once, after the full-resolution transform.
C4_MaskPlacement ==
    (Returned /\ op \in MaskingOps) =>
      \A j \in 1..Len(result.outs) :
        CASE op \in MaskLastOps -> MaskAfterAverage(result.outs[j])
          [] op = "mtphase" -> MaskBetween(result.outs[j])
          [] op = "mtcpca_all" -> MaskAfterTransform(result.outs[j])

\* mtphase returned an average over several tapers under a mask that drops
\* bins and keeps bins
C4_Witness ==
    /\ Returned
    /\ op = "mtphase"
    /\ w >= 2
    /\ Len(result.outs[1].taps) = w
    /\ \E i \in 1..Len(fInd) : fInd[i]
    /\ \E i \in 1..Len(fInd) : ~fInd[i]

\* C5 as claimed: a per-channel estimator given an input whose rank is
\* neither 2 nor 3 fetches no taper, computes no transform, ends in an error
\* and returns nothing.
C5_BadRankRejected ==
    (InCall /\ op \in PerChannelOps /\ Len(x_shape) \notin {2, 3}) =>
      /\ w = 0
      /\ ktap = 0
      /\ result = NoResult
      /\ pc = "done" => Failed

\* C7 as claimed: mtppc or mtpspec with a pair count below 1 is aborted and
\* returns no estimate.
C7_PairCountRejected ==
    (pc = "done" /\ op \in {"mtppc", "mtpspec"} /\ params.Npairs < 1) =>
      Failed /\ result = NoResult

\* the requested component ranks, and whether one is out of range for the
\* channel count of the recording
RankOutOfRange ==
    \E i \in 1..Len(params.pcaComponentNumber) :
       \/ params.pcaComponentNumber[i] > nchans
       \/ params.pcaComponentNumber[i] < 1

\* C8 as claimed: an out-of-range component rank is detected before any taper
\* is applied or transform computed, the call aborts with no result, and rank
\* 0 is never accepted.
C8_RankRejectedEagerly ==
    (InCall /\ op = "mtcpca_all" /\ nchans # Unbound /\ RankOutOfRange) =>
      /\ ktap = 0
      /\ acc = <<>>
      /\ result = NoResult
      /\ pc = "done" => Failed

\* the 1x1 case: the only eigenvalue of outer(c, conj(c)) is |c|^2, and it is
\* divided by a channel count of 1
Reduce1x1(c) ==
    IF Pos(c, "squeeze") > 0 /\ Pos(c, "squeeze") < Pos(c, "outer")
    THEN SubSeq(c, 1, Pos(c, "squeeze") - 1) \o <<"abs", "square">>
    ELSE c

\* the per-channel estimate a one-channel cPCA output is compared with
PerChannelCounterpart(name) ==
    CASE name \in {"mtcplv", "plv", "itc"} -> mtplv_chain(params)
      [] name \in {"mtcspec", "spectrum"} -> mtspec_S_chain
      [] OTHER -> <<>>

\* C9 as claimed: on a recording of shape 1 x trials x time, mtcpca, mtcspec
\* and mtcpca_all return an estimate, which equals the per-channel estimate.
C9_SingleChannelReduction ==
    (pc = "done" /\ op \in {"mtcpca", "mtcspec", "mtcpca_all"}
       /\ Len(x_shape) = 3 /\ x_shape[1] = 1) =>
      /\ outcome = "returned"
      /\ \A j \in 1..Len(result.outs) : \A i \in 1..Len(result.outs[j].taps) :
           Reduce1x1(result.outs[j].taps[i])
             = PerChannelCounterpart(result.names[j])

\* C10: a call in bootstrap mode and the same call in normal mode, with the
\* same random draws, end the same way with the same statistics and the same
\* frequency axis; only the container differs (dictionary versus tuple).
C10_BootstrapSameNumbers ==
    (pc = "done" /\ calls = 2) =>
      /\ outcome = prev.outcome
      /\ result.names = prev.result.names
      /\ result.outs = prev.result.outs
      /\ result.has_f = prev.result.has_f
      /\ result.f = prev.result.f
      /\ outcome = "returned" =>
           /\ result.container = IF params.bootstrapMode THEN "dict" ELSE "tuple"
           /\ prev.result.container = IF params.bootstrapMode THEN "tuple" ELSE "dict"

\* mtspec returned its two statistics in a dictionary after returning them
\* in a tuple
C10_Witness ==
    /\ pc = "done"
    /\ calls = 2
    /\ outcome = "returned"
    /\ op = "mtspec"
    /\ Len(result.outs) = 2
    /\ Len(result.f) >= 2
    /\ result.container = "dict"
    /\ prev.result.container = "tuple"

\* C11 as claimed: every operation, in normal and in bootstrap mode, returns
\* the passband-masked frequency axis together with its statistics.
C11_EveryOperationReturnsAxis ==
    Returned =>
      /\ result.has_f
      /\ result.f = Select(f_full, fInd)

\* C11 as amended: every operation but mtcpca_timeDomain returns the masked
\* axis f[fInd] with its statistics, as a tuple member in normal mode and
\* under the key 'f' in bootstrap mode; mtcpca_timeDomain returns the two
\* waveforms y_cpc and y_pc and no frequency axis, in either mode.
C11_AxisReturnedExceptTimeDomain ==
    Returned =>
      IF op = "mtcpca_timeDomain"
      THEN /\ ~result.has_f
           /\ result.f = <<>>
           /\ result.names = <<"y_cpc", "y_pc">>
      ELSE /\ result.has_f
           /\ result.f = Select(f_full, fInd)
           /\ result.f = f

\* mtcpca_timeDomain returned in bootstrap mode after returning in normal
\* mode, both times without an axis, although the passband selects bins
C11_Witness ==
    /\ Returned
    /\ calls = 2
    /\ op = "mtcpca_timeDomain"
    /\ result.container = "dict"
    /\ prev.result.container = "tuple"
    /\ ~result.has_f
    /\ ~prev.result.has_f
    /\ Len(f) >= 1

\* the estimators that divide transform coefficients by their magnitude
UnitNormalizingOps ==
    {"mtplv", "mtppc", "mtcpca", "mtcpca_all", "mtcpca_timeDomain"}

\* the call has nothing else to fail on: the rank was accepted, a pair is
\* drawn, the passband holds two bins or more, the component ranks are in
\* range
OtherwiseSound ==
    /\ timedim # Unbound
    /\ op = "mtppc" => params.Npairs >= 1
    /\ op = "mtcpca_all" =>
         /\ Len(f) >= 2
         /\ select_raises(params) = "none"
         /\ \A i \in 1..Len(pcsel) : index_ok(pcsel[i], nchans)

\* C12 as claimed: when a trial of the recording is zero (its transform
\* coefficients have magnitude zero), every unit-normalizing estimator
\* returns, and nothing it returns is NaN.
C12_ZeroMagnitudeHandled ==
    (pc = "done" /\ op \in UnitNormalizingOps /\ x_zero /\ OtherwiseSound) =>
      /\ outcome = "returned"
      /\ \A j \in 1..Len(result.outs) : ~result.outs[j].nan

\* a whole call of mtcpca or mtcspec on a recording of shape xs under the
\* configuration p, composed of the steps the actions take one by one
cpca_call(o, p, xs, zero) ==
    LET sc == shape_check(o, xs, <<>>) IN
      IF sc.timedim = Unbound
      THEN [outcome |-> "UnboundLocalError", result |-> NoResult]
      ELSE LET L  == sc.shape[sc.timedim + 1]
               fv == get_freq_vector(L, p, <<>>)
               nw == fetch_tapers(o, L, p)
               e  == [nch |-> sc.nchans, ntr |-> sc.ntrials, L |-> L,
                      nfull |-> Len(fv.full), nbm |-> Len(fv.f),
                      sel |-> <<-1>>, zero |-> zero]
               r  == taper_body(o, p, e, 0)
           IN IF nw >= 1 /\ r.exc # "none"
              THEN [outcome |-> r.exc, result |-> NoResult]
              ELSE [outcome |-> "returned",
                    result |-> package(o, p, [i \in 1..nw |-> r.outs], fv.f)]

\* the operations an output went through at a passband bin: the mask only
\* picks bins and every other operation works bin by bin, so it is left out
AtPassbandBin(o) ==
    [i \in 1..Len(o.taps) |->
        SelectSeq(Pipeline(o, i), LAMBDA t : t # "mask")]

SameEstimate(a, b) ==
    /\ AtPassbandBin(a) = AtPassbandBin(b)
    /\ a.nan = b.nan
    /\ a.sel = b.sel
    /\ a.len = b.len

DefaultSelection(p) == p.pcaComponentNumber = <<1>> /\ ~p.pcaIsArray

\* C13 as claimed: with the default component selection mtcpca_all stands
\* for the three calls mtcpca with itc off, mtcpca with itc on and mtcspec on
\* the same recording and configuration: it returns when they return, its
\* plv, itc and spectrum equal theirs at every passband bin, and the axes
\* are equal.
C13_AllEqualsThreeCalls ==
    (pc = "done" /\ op = "mtcpca_all" /\ DefaultSelection(params)) =>
      LET plvRef  == cpca_call("mtcpca", [params EXCEPT !.itc = FALSE],
                               x_shape, x_zero)
          itcRef  == cpca_call("mtcpca", [params EXCEPT !.itc = TRUE],
                               x_shape, x_zero)
          specRef == cpca_call("mtcspec", params, x_shape, x_zero)
          three   == {plvRef, itcRef, specRef}
      IN /\ outcome = "returned" <=> \A c \in three : c.outcome = "returned"
         /\ outcome = "returned" =>
              /\ SameEstimate(result.outs[1], specRef.result.outs[1])
              /\ SameEstimate(result.outs[2], plvRef.result.outs[1])
              /\ SameEstimate(result.outs[3], itcRef.result.outs[1])
              /\ \A c \in three : c.result.f = result.f

\* the component ranks the caller asked for: rank 1 when the list is empty
RequestedRanks(p) ==
    IF Len(p.pcaComponentNumber) = 0 THEN <<1>> ELSE p.pcaComponentNumber

\* the chain ends in the eigendecomposition, the selection and the division
\* by the channel count
SelectsAndDivides(c) ==
    /\ Len(c) >= 3
    /\ c[Len(c) - 2] = "eigh"
    /\ c[Len(c) - 1] = "select"
    /\ c[Len(c)] = "div_nchans"

\* C14: in a call of mtcpca_all that returns with ranks between 1 and the
\* channel count, the i-th entry of each of spectrum, plv and itc reads the
\* eigenvalue at position nchans - r of the ascending eigenvalues, r being
\* the i-th requested rank (rank 1 for an empty list), and divides it by the
\* channel count; mtcpca and mtcspec read the last eigenvalue and divide it
\* by the channel count.
C14_RankSelectsFromTop ==
    /\ (Returned /\ op = "mtcpca_all" /\ ~RankOutOfRange) =>
         \A j \in 1..3 :
           LET o == result.outs[j]
               R == RequestedRanks(params)
           IN /\ Len(o.sel) = Len(R)
              /\ \A i \in 1..Len(R) :
                   py_index(o.sel[i], nchans) = nchans - R[i]
              /\ \A i \in 1..Len(o.taps) : SelectsAndDivides(o.taps[i])
    /\ (Returned /\ op \in {"mtcpca", "mtcspec"}) =>
         LET o == result.outs[1] IN
           /\ Len(o.sel) = 1
           /\ py_index(o.sel[1], nchans) = nchans - 1
           /\ \A i \in 1..Len(o.taps) : SelectsAndDivides(o.taps[i])

\* mtcpca_all returned the second largest eigenvalue of a recording of two
\* channels or more, over several tapers and bins
C14_Witness ==
    /\ Returned
    /\ op = "mtcpca_all"
    /\ params.pcaComponentNumber = <<2>>
    /\ nchans >= 2
    /\ result.outs[1].sel = <<-2>>
    /\ Len(result.outs[1].taps) >= 2
    /\ Len(f) >= 2

\* C15 as claimed: with a list of k >= 2 component ranks built by
\* generate_parameters, mtcpca_all returns, and every output has a leading
\* component axis of length k whose i-th entry belongs to the i-th rank.
C15_MultiRankComponentAxis ==
    (pc = "done" /\ op = "mtcpca_all" /\ params.pcaIsArray
       /\ Len(params.pcaComponentNumber) >= 2
       /\ timedim # Unbound /\ ~RankOutOfRange /\ Len(f) >= 2 /\ ~x_zero) =>
      /\ outcome = "returned"
      /\ \A j \in 1..Len(result.outs) :
           /\ Len(result.outs[j].sel) = Len(params.pcaComponentNumber)
           /\ \A i \in 1..Len(result.outs[j].sel) :
                py_index(result.outs[j].sel[i], nchans)
                  = nchans - params.pcaComponentNumber[i]

\* token a comes before token b in chain c, both present
Before(c, a, b) == 0 < Pos(c, a) /\ Pos(c, a) < Pos(c, b)

\* C16 as claimed: S of mtspec is the mean over trials of the magnitudes of
\* the coefficients, N the mean over trials of the magnitudes of the phase-
\* rotated coefficients; both are then averaged over tapers.
C16_MeanOfMagnitudes ==
    (Returned /\ op = "mtspec") =>
      /\ \A i \in 1..Len(result.outs[1].taps) :
           LET c == Pipeline(result.outs[1], i) IN
             /\ Before(c, "rfft", "abs")
             /\ Before(c, "abs", "mean_trial")
             /\ Before(c, "mean_trial", "mean_taper")
      /\ \A i \in 1..Len(result.outs[2].taps) :
           LET c == Pipeline(result.outs[2], i) IN
             /\ Before(c, "randph", "abs")
             /\ Before(c, "abs", "mean_trial")
             /\ Before(c, "mean_trial", "mean_taper")

\* C16 as amended: S is the magnitude of the mean over trials of the
\* coefficients, N the magnitude of the mean over trials of the phase-rotated
\* coefficients; both are then averaged over tapers, and S sees no rotation.
C16_MagnitudeOfMean ==
    (Returned /\ op = "mtspec") =>
      /\ result.names = <<"mtspec", "mtspec_noise">>
      /\ \A i \in 1..Len(result.outs[1].taps) :
           LET c == Pipeline(result.outs[1], i) IN
             /\ Before(c, "rfft", "mean_trial")
             /\ Before(c, "mean_trial", "abs")
             /\ Before(c, "abs", "mean_taper")
             /\ Count(c, "abs") = 1
             /\ Count(c, "randph") = 0
      /\ \A i \in 1..Len(result.outs[2].taps) :
           LET c == Pipeline(result.outs[2], i) IN
             /\ Before(c, "rfft", "randph")
             /\ Before(c, "randph", "mean_trial")
             /\ Before(c, "mean_trial", "abs")
             /\ Before(c, "abs", "mean_taper")
             /\ Count(c, "abs") = 1

\* mtspec returned S and N of several trials over several tapers
C16_Witness ==
    /\ Returned
    /\ op = "mtspec"
    /\ ntrials >= 2
    /\ w >= 2
    /\ Len(result.outs[1].taps) = w
    /\ Len(result.outs[2].taps) = w
    /\ calls = 1

\* the positions inside the body of an estimator: a step taken from one of
\* them is a step of the estimator's code
Running == {"squeeze", "freq", "tapers", "select", "loop"}

\* the operations that draw from np.random
RandomOps == {"mtspec", "mtppc", "mtpspec"}

\* a step of an estimator that leaves the recording and the configuration
\* record as they were
InputsUntouched ==
    pc \in Running =>
      x_shape' = x_shape /\ x_zero' = x_zero /\ params' = params

\* a step of an estimator that leaves the generator as it was
GeneratorUntouched == pc \in Running => rng' = rng

\* a step of an estimator that advances the generator only by the draws of
\* mtspec, mtppc and mtpspec
GeneratorAdvancedByDraws ==
    pc \in Running =>
      /\ rng' >= rng
      /\ op \notin RandomOps => rng' = rng
      /\ (op = "mtspec" /\ ktap' = ktap + 1) => rng' = rng + 1

\* C17 as claimed: no step of an estimator changes the recording or the
\* configuration record, or touches state that outlives the call.
C17_NoPersistentState ==
    [][InputsUntouched /\ GeneratorUntouched]_vars

\* C17 as amended: no step of an estimator changes the recording or the
\* configuration record; mtplv, mtphase, mtcpca, mtcspec, mtcpca_timeDomain,
\* mtspecraw and mtcpca_all touch no state that outlives the call, while
\* mtspec, mtppc and mtpspec advance the process-wide generator np.random
\* with every draw.
C17_InputsUntouchedGeneratorAdvanced ==
    [][InputsUntouched /\ GeneratorAdvancedByDraws]_vars

\* mtspec returned twice, each call having drawn once per taper; the
\* generator is two calls further than it was at the start
C17_Witness ==
    /\ Returned
    /\ op = "mtspec"
    /\ calls = 2
    /\ w >= 2
    /\ rng = 2 * w
    /\ params # default_params

C19_EigenvectorsNormalizedAndAveraged ==
    (Returned /\ op = "mtcpca_all" /\ params.returnEigenvectors) =>
      /\ Len(result.outs) = 6
      /\ \A j \in 4..6 : \A i \in 1..Len(result.outs[j].taps) :
           LET c == Pipeline(result.outs[j], i) IN
             /\ Before(c, "select_vec", "div_sum")
             /\ Before(c, "div_sum", "mean_taper")

\* the rank branch of the running call has been taken
PastShapeCheck == InCall /\ pc # "squeeze"

\* C23 as claimed: the channel count and trial count an estimator works with
\* are those of the recording as passed: a recording of shape (C, 1, T) with
\* C >= 2 is processed as C channels of 1 trial each, never as one channel
\* of C trials, and a recording of shape (1, N, T) as one channel of N
\* trials.
C23_CountsOfRecordingAsPassed ==
    (PastShapeCheck /\ op \in Ops /\ Len(x_shape) = 3) =>
      /\ nchans = x_shape[1]
      /\ ntrials = x_shape[2]

----------------------------------------------------------------------------
(* Properties of mtcpca_timeDomain, checked under SpecWave *)

\* C20 as claimed: for every sample count L and every accepted transform
\* size n >= L, even or odd, the waveform y_cpc that mtcpca_timeDomain
\* returns has exactly L samples, as many as y_pc.
C20_WaveformLength ==
    (Returned /\ op = "mtcpca_timeDomain") =>
      /\ result.names = <<"y_cpc", "y_pc">>
      /\ result.outs[1].len = SampleCount
      /\ result.outs[2].len = SampleCount

----------------------------------------------------------------------------
(* Properties of mtcpca_all, checked under SpecAll *)

\* a call of mtcpca_all that a record with 'returnEigenvectors' false
\* completes: a recording of rank 3 with no zero trial, two passband bins or
\* more, and selected components within the channel count
AllCallSound ==
    /\ op = "mtcpca_all"
    /\ Len(x_shape) = 3 /\ timedim # Unbound
    /\ ~x_zero
    /\ Len(f) >= 2
    /\ select_raises(params) = "none"
    /\ all_raises(nchans, Len(f), select_components(params)) = "none"

NoEigenvectors ==
    /\ outcome = "returned"
    /\ result.names = <<"spectrum", "plv", "itc">>
    /\ Len(result.outs) = 3

\* C22 as claimed: mtcpca_all treats a configuration record that has no
\* 'returnEigenvectors' key like one where the key is false: the call
\* completes and returns spectrum, plv and itc without eigenvector outputs.
C22_MissingKeyTreatedAsFalse ==
    (pc = "done" /\ AllCallSound /\ "returnEigenvectors" \notin params.keys)
        => NoEigenvectors

----------------------------------------------------------------------------
(* Properties of generate_parameters, checked under SpecParams *)

InvalidPassband(p) ==
    /\ "fpass" \in p.keys
    /\ Len(p.fpass) = 2
    /\ \/ p.fpass[1] >= p.fpass[2]
       \/ p.fpass[1] < 0
       \/ p.fpass[2] < 0
       \/ p.fpass[1] > p.Fs
       \/ p.fpass[2] > p.Fs

MalformedTapers(p) ==
    \/ Len(p.tapers) # 2
    \/ p.tapers[1] <= 0
    \/ p.tapers[2] <= 0

\* C6 as claimed: with an invalid passband or a malformed taper spec
\* generate_parameters aborts and returns no configuration record.
C6_InvalidConfigurationRejected ==
    pc = "configured" => ~InvalidPassband(params) /\ ~MalformedTapers(params)

\* the keywords besides the sample rate give generate_parameters nothing to
\* fail on: a taper spec and a passband, when passed, have two entries
OtherKeywordsSound(kw) ==
    /\ "tapers" \in kw.given => Len(kw.tapers) >= 2
    /\ "fpass" \in kw.given => Len(kw.fpass) >= 2

Reported(d, msg) == \E i \in 1..Len(d) : d[i] = msg

\* a call of generate_parameters that was passed a sample rate, under any of
\* the spellings, returns a record whose key 'Fs' holds it, and validation
\* reports no missing sample rate
SampleRateTaken ==
    \A kw \in AnyKwArgs :
      (GenerateParameters(kw) /\ "Fs" \in kw.given /\ OtherKeywordsSound(kw)) =>
        /\ pc' = "configured"
        /\ "Fs" \in params'.keys
        /\ params'.Fs = kw.Fs
        /\ ~Reported(diag', "sample rate must be specified")

\* C21 as claimed: generate_parameters accepts Fs, samplerate, sfreq and
\* srate, in any letter case, as the sample rate: the returned record has
\* the key 'Fs' holding the value, and validation reports no missing sample
\* rate.
C21_SampleRateSpellingsAccepted == [][SampleRateTaken]_vars

====
